---- MODULE Spec2Model ----
(***************************************************************************)
(* Model of src/main.py: the blog-site detector get_site_info, the         *)
(* recursive pagination crawler get_posts, and the two POST handlers       *)
(* (/api/posts, /api/logs) with the validate_request decorator and the     *)
(* membership allow-list.                                                  *)
(*                                                                         *)
(* Python strings are modelled as sequences of atoms (each atom is either  *)
(* the single character "/" or a slash-free piece of text), so that        *)
(* substring tests, the velog regular expression, str.replace and the      *)
(* f-strings are computed the way the code computes them.  A Python dict   *)
(* is a record; a missing key is a missing field.  A raised exception is a *)
(* record [raised |-> <exception name>].                                   *)
(***************************************************************************)
EXTENDS Integers, Sequences, FiniteSets, TLC

(* ------------------------------------------------------------------ *)
(* Bounds                                                              *)
(* ------------------------------------------------------------------ *)

\* Number of nested get_posts frames the interpreter allows before the
\* recursive call raises RecursionError.  CPython's limit is
\* sys.getrecursionlimit() (1000 unless raised; main.py never raises it);
\* the model scales it down.
RecursionLimit == 4

(* ------------------------------------------------------------------ *)
(* Strings                                                             *)
(* ------------------------------------------------------------------ *)

\* s.strip() == "" : only whitespace atoms
IsBlank(s) == \A i \in 1..Len(s) : s[i] = " "

\* sub in s
Contains(s, sub) ==
    \E i \in 1..(Len(s) - Len(sub) + 1) : SubSeq(s, i, i + Len(sub) - 1) = sub

\* s.replace(atom, t), every occurrence, left to right
RECURSIVE Replace(_, _, _)
Replace(s, atom, t) ==
    IF s = <<>> THEN <<>>
    ELSE (IF Head(s) = atom THEN t ELSE <<Head(s)>>) \o Replace(Tail(s), atom, t)

\* str(n) for a page number
Str(n) == <<ToString(n)>>

(* ------------------------------------------------------------------ *)
(* Exceptions                                                          *)
(* ------------------------------------------------------------------ *)

Raised(exc) == [raised |-> exc]
IsRaised(v) == "raised" \in DOMAIN v

(* ------------------------------------------------------------------ *)
(* is_valid_jungler                                                    *)
(* ------------------------------------------------------------------ *)

\* the 32 member names of the allow-list, romanized
junglers == <<
    <<"GoMinji">>, <<"KimGirae">>, <<"KimDonggyu">>, <<"KimMingyu">>, <<"KimBoa">>, <<"KimSeongjong">>, <<"KimSumin">>, <<"KimHyeonho">>,
    <<"RyuSeungchan">>, <<"ParkSuyeon">>, <<"ParkHyerin">>, <<"BaeSanghwa">>, <<"SongSangrok">>, <<"ShinYerin">>, <<"ShinUjin">>, <<"AnSuyeon">>,
    <<"AnJunpyo">>, <<"AnTaeju">>, <<"YangJinseong">>, <<"OhJuntak">>, <<"YuHojun">>, <<"LeeJongho">>, <<"LeeJumyeong">>, <<"LeeJuhyeong">>,
    <<"LeeJiyun">>, <<"LeeTaeyun">>, <<"JangJunyeong">>, <<"JoSeongjin">>, <<"ChoiSeonha">>, <<"HanJinu">>, <<"HongSeokpyo">>, <<"HwangHuigu">> >>

is_valid_jungler(name) == \E i \in 1..Len(junglers) : junglers[i] = name

(* ------------------------------------------------------------------ *)
(* get_site_info                                                       *)
(* ------------------------------------------------------------------ *)

\* the three messages of get_site_info (lines 159, 180, 181), in English
MSG_NO_URL == "no url"
MSG_LOOKUP_OK == "blog lookup succeeded"
MSG_LOOKUP_FAIL == "blog lookup failed"

\* 'velog.io/@'
VELOG_MARK == <<"velog.io", "/", "@">>

\* the literal head of velog_pattern, r'https://velog\.io/(@[^/]+)', up to
\* and including the "@" that opens group 1
VELOG_PATTERN_HEAD == <<"https:", "/", "/", "velog.io", "/", "@">>

\* [^/]+ from position i of s: the longest run of non-slash atoms
RECURSIVE NonSlashRun(_, _)
NonSlashRun(s, i) ==
    IF i > Len(s) \/ s[i] = "/" THEN <<>>
    ELSE <<s[i]>> \o NonSlashRun(s, i + 1)

\* positions where velog_pattern matches
VelogMatchAt(url) ==
    { i \in 1..Len(url) :
        /\ i + Len(VELOG_PATTERN_HEAD) - 1 <= Len(url)
        /\ SubSeq(url, i, i + Len(VELOG_PATTERN_HEAD) - 1) = VELOG_PATTERN_HEAD
        /\ NonSlashRun(url, i + Len(VELOG_PATTERN_HEAD)) # <<>> }

\* re.search(velog_pattern, url): the leftmost match's group(1), or None
VelogSearch(url) ==
    IF VelogMatchAt(url) = {} THEN [matched |-> FALSE]
    ELSE LET i == CHOOSE k \in VelogMatchAt(url) : \A j \in VelogMatchAt(url) : k <= j
         IN [matched |-> TRUE,
             group1 |-> <<"@">> \o NonSlashRun(url, i + Len(VELOG_PATTERN_HEAD))]

\* p_url of a tistory blog
TistoryPageUrl(name) ==
    <<"https://">> \o name \o <<".tistory.com/m/api/entry/0/POST?page=", "#page", "&size=20">>

\* p_url of a velog blog: the GraphQL document with its two placeholders
VELOG_QUERY == <<"{\"query\":\"query velogPosts...\",\"variables\":{\"input\":{\"cursor\":\"",
                 "#cursor", "\",\"username\":\"", "#id", "\",\"limit\":100,\"tag\":\"\"}}}">>

IntVal(n) == [kind |-> "int", val |-> n]
StrVal(s) == [kind |-> "str", val |-> s]

ErrorInfo(msg) == [status |-> "error", message |-> msg]

\* the try block with the velog test of the url ahead of the tistory test
\* of the page
GetSiteInfoTry_velog_first(url, fetched) ==
    IF fetched.raises THEN Raised("RequestException")
    ELSE IF Contains(url, VELOG_MARK) THEN
        LET velog_match == VelogSearch(url) IN
        IF ~velog_match.matched THEN Raised("AttributeError")
        ELSE LET id == Tail(velog_match.group1) IN
             IF id # <<>>
             THEN [status |-> "success", message |-> MSG_LOOKUP_OK, type |-> "velog",
                   name |-> id, id |-> id, p_url |-> VELOG_QUERY,
                   p_page |-> StrVal(<<>>), posts |-> <<>>]
             ELSE [status |-> "success", message |-> MSG_LOOKUP_OK, type |-> "velog"]
    ELSE IF fetched.marker THEN
        IF fetched.config.kind = "absent" THEN ErrorInfo(MSG_LOOKUP_FAIL)
        ELSE IF fetched.config.kind = "unparsable" THEN Raised("JSONDecodeError")
        ELSE IF fetched.config.kind = "nokey" THEN Raised("KeyError")
        ELSE [status |-> "success", message |-> MSG_LOOKUP_OK, type |-> "tistory",
              name |-> fetched.config.name, id |-> fetched.config.id,
              p_url |-> TistoryPageUrl(fetched.config.name),
              p_page |-> IntVal(0), posts |-> <<>>]
    ELSE ErrorInfo(MSG_LOOKUP_FAIL)

\* lines 162-194, the body of the try block; fetched is what requests.get(url)
\* gives: it raises, or it is a page with or without the tistory marker and
\* with some window.T.config blob
GetSiteInfoTry(url, fetched) ==
    IF fetched.raises THEN Raised("RequestException")
    ELSE IF fetched.marker THEN
        IF fetched.config.kind = "absent" THEN ErrorInfo(MSG_LOOKUP_FAIL)
        ELSE IF fetched.config.kind = "unparsable" THEN Raised("JSONDecodeError")
        ELSE IF fetched.config.kind = "nokey" THEN Raised("KeyError")
        ELSE [status |-> "success", message |-> MSG_LOOKUP_OK, type |-> "tistory",
              name |-> fetched.config.name, id |-> fetched.config.id,
              p_url |-> TistoryPageUrl(fetched.config.name),
              p_page |-> IntVal(0), posts |-> <<>>]
    ELSE IF Contains(url, VELOG_MARK) THEN
        LET velog_match == VelogSearch(url) IN
        IF ~velog_match.matched THEN Raised("AttributeError")
        ELSE LET id == Tail(velog_match.group1) IN
             IF id # <<>>
             THEN [status |-> "success", message |-> MSG_LOOKUP_OK, type |-> "velog",
                   name |-> id, id |-> id, p_url |-> VELOG_QUERY,
                   p_page |-> StrVal(<<>>), posts |-> <<>>]
             ELSE [status |-> "success", message |-> MSG_LOOKUP_OK, type |-> "velog"]
    ELSE ErrorInfo(MSG_LOOKUP_FAIL)

\* get_site_info without its bare except: what the try block raises escapes
get_site_info_unguarded(url, fetched) ==
    IF url = <<>> THEN ErrorInfo(MSG_NO_URL) ELSE GetSiteInfoTry(url, fetched)

get_site_info(url, fetched) ==
    IF url = <<>> THEN ErrorInfo(MSG_NO_URL)
    ELSE LET r == GetSiteInfoTry(url, fetched) IN
         IF IsRaised(r) THEN ErrorInfo(MSG_LOOKUP_FAIL) ELSE r

(* ------------------------------------------------------------------ *)
(* get_posts                                                           *)
(* ------------------------------------------------------------------ *)

Months == {"01", "02", "03", "04", "05", "06", "07", "08", "09", "10", "11", "12"}
Days == Months \cup {"13", "14", "15", "16", "17", "18", "19", "20", "21", "22",
                     "23", "24", "25", "26", "27", "28", "29", "30", "31"}

\* datetime.strptime(s, '%Y. %m. %d.'): the date, or ValueError
Strptime(s) ==
    IF /\ Len(s) = 6
       /\ s[2] = ". " /\ s[4] = ". " /\ s[6] = "."
       /\ s[3] \in Months /\ s[5] \in Days
    THEN [year |-> s[1], month |-> s[3], day |-> s[5]]
    ELSE Raised("ValueError")

\* d.strftime('%Y-%m-%d')
Strftime(d) == <<d.year, "-", d.month, "-", d.day>>

\* lines 205-212: the item of one tistory row
TistoryItem(row) ==
    LET d == Strptime(row.published) IN
    IF IsRaised(d) THEN d
    ELSE [id |-> row.id, title |-> row.title, url |-> row.url \o row.subPath,
          created_at |-> Strftime(d), thumbnail |-> row.thumbnail,
          summary |-> row.summary]

\* lines 224-231: the item of one velog row
VelogItem(site_info, row) ==
    [id |-> row.id, title |-> row.title,
     url |-> <<"https:", "/", "/", "velog.io", "/", "@">> \o site_info.id \o <<"/">> \o row.url_slug,
     created_at |-> row.released_at, thumbnail |-> row.thumbnail,
     summary |-> row.short_description]

\* line 215 with the cursor left where it was
NextTistoryPage_same(page) == page

\* line 215 counting down
NextTistoryPage_down(page) == IntVal(page.val - 1)

\* line 215: site_info['p_page'] = page + 1
NextTistoryPage(page) == IntVal(page.val + 1)

\* line 232 left out: the cursor stays what it was
VelogCursor_stale(site_info, row) == site_info.p_page

\* line 232: site_info['p_page'] = row['id']
VelogCursor(site_info, row) == StrVal(row.id)

\* line 214: response['data']['nextPage'] != None
TistoryHasNext(resp) == resp.nextPage # <<>>

\* line 235 taking a page of fewer than three posts for the last one
VelogHasNext_short_page(resp) == Len(resp.posts) >= 3

\* line 235: response['data']['posts'] != []
VelogHasNext(resp) == resp.posts # <<>>

\* lines 204-213: the for loop over response["data"]['items']; the dict is
\* mutated in place, so what was appended before a raise stays appended
RECURSIVE TistoryLoop(_, _)
TistoryLoop(site_info, rows) ==
    IF rows = <<>> THEN [info |-> site_info, exc |-> "none"]
    ELSE LET item == TistoryItem(Head(rows)) IN
         IF IsRaised(item) THEN [info |-> site_info, exc |-> item.raised]
         ELSE IF "posts" \notin DOMAIN site_info THEN [info |-> site_info, exc |-> "KeyError"]
         ELSE TistoryLoop([site_info EXCEPT !.posts = Append(@, item)], Tail(rows))

\* lines 223-233: the for loop over response['data']['posts']
RECURSIVE VelogLoop(_, _)
VelogLoop(site_info, rows) ==
    IF rows = <<>> THEN [info |-> site_info, exc |-> "none"]
    ELSE IF "posts" \notin DOMAIN site_info THEN [info |-> site_info, exc |-> "KeyError"]
    ELSE VelogLoop([site_info EXCEPT !.p_page = VelogCursor(site_info, Head(rows)),
                                     !.posts = Append(@, VelogItem(site_info, Head(rows)))],
                   Tail(rows))

\* What one frame of get_posts does, lines 200-238, given the upstream's
\* answer to the one request the frame may send.  The result says how the
\* frame ends: "return" (line 238), "recurse" (lines 216 and 236, the
\* recursive call) or "raise"; info is the dict as the frame leaves it and
\* sent the requests the frame issued.
Frame(info, sent, act, exc) == [info |-> info, sent |-> sent, act |-> act, exc |-> exc]

TistoryFrame(site_info, resp) ==
    IF ~({"p_page", "p_url"} \subseteq DOMAIN site_info)
    THEN Frame(site_info, <<>>, "raise", "KeyError")
    ELSE
    LET page == site_info.p_page
        p_url == Replace(site_info.p_url, "#page",
                         IF page.kind = "int" THEN Str(page.val) ELSE page.val)
        sent == <<[method |-> "GET", url |-> p_url]>>
    IN  IF resp.raises THEN Frame(site_info, sent, "raise", "RequestException")
        ELSE LET loop == TistoryLoop(site_info, resp.items) IN
             IF loop.exc # "none" THEN Frame(loop.info, sent, "raise", loop.exc)
             ELSE IF TistoryHasNext(resp)
             THEN IF page.kind # "int" THEN Frame(loop.info, sent, "raise", "TypeError")
                  ELSE Frame([loop.info EXCEPT !.p_page = NextTistoryPage(page)],
                             sent, "recurse", "none")
             ELSE Frame(loop.info, sent, "return", "none")

VelogFrame(site_info, resp) ==
    IF ~({"p_page", "p_url", "id"} \subseteq DOMAIN site_info)
    THEN Frame(site_info, <<>>, "raise", "KeyError")
    ELSE IF site_info.p_page.kind # "str"
    THEN Frame(site_info, <<>>, "raise", "TypeError")
    ELSE
    LET payload == Replace(Replace(site_info.p_url, "#cursor", site_info.p_page.val),
                           "#id", site_info.id)
        sent == <<[method |-> "POST", url |-> <<"https://v3.velog.io/graphql">>,
                   data |-> payload]>>
    IN  IF resp.raises THEN Frame(site_info, sent, "raise", "RequestException")
        ELSE LET loop == VelogLoop(site_info, resp.posts) IN
             IF loop.exc # "none" THEN Frame(loop.info, sent, "raise", loop.exc)
             ELSE IF VelogHasNext(resp) THEN Frame(loop.info, sent, "recurse", "none")
             ELSE Frame(loop.info, sent, "return", "none")

\* get_posts with its body in a try block that takes any exception for the
\* end of the pagination
get_posts_frame_swallow(site_info, resp) ==
    LET f == IF "type" \notin DOMAIN site_info THEN Frame(site_info, <<>>, "raise", "KeyError")
             ELSE IF site_info.type = "tistory" THEN TistoryFrame(site_info, resp)
             ELSE IF site_info.type = "velog" THEN VelogFrame(site_info, resp)
             ELSE Frame(site_info, <<>>, "return", "none")
    IN IF f.act = "raise" THEN Frame(f.info, f.sent, "return", "none") ELSE f

get_posts_frame(site_info, resp) ==
    IF "type" \notin DOMAIN site_info THEN Frame(site_info, <<>>, "raise", "KeyError")
    ELSE IF site_info.type = "tistory" THEN TistoryFrame(site_info, resp)
    ELSE IF site_info.type = "velog" THEN VelogFrame(site_info, resp)
    ELSE Frame(site_info, <<>>, "return", "none")

(* ------------------------------------------------------------------ *)
(* api_response, validate_request                                      *)
(* ------------------------------------------------------------------ *)

NoData == [kind |-> "none"]

\* api_response(data, message, status); data and message are left out of
\* the body when they are None (NoData, "").  The handlers' messages are
\* given in English.
api_response(data, message, status) ==
    [status |-> status,
     result |-> IF status < 400 THEN "success" ELSE "fail",
     data |-> data, message |-> message]

NoResponse == [status |-> 0, result |-> "none", data |-> NoData, message |-> ""]

PyNone == [kind |-> "none", val |-> <<>>]
PyStr(s) == [kind |-> "str", val |-> s]
PyOther == [kind |-> "other", val |-> <<>>]

\* the wrapper of validate_request({'name': str, 'url': str}), lines 115-139:
\* the 400 response it answers with, or NoResponse when it calls the handler
validate_request(data) ==
    IF ~data.is_dict
    THEN api_response(NoData, "bad request format", 400)
    ELSE IF data.name.kind = "none" \/ data.url.kind = "none"
    THEN api_response(NoData, "missing required fields", 400)
    ELSE IF data.name.kind # "str"
    THEN api_response(NoData, "name has the wrong type", 400)
    ELSE IF IsBlank(data.name.val)
    THEN api_response(NoData, "name must not be blank", 400)
    ELSE IF data.url.kind # "str"
    THEN api_response(NoData, "url has the wrong type", 400)
    ELSE IF IsBlank(data.url.val)
    THEN api_response(NoData, "url must not be blank", 400)
    ELSE NoResponse

(* ------------------------------------------------------------------ *)
(* Inputs                                                              *)
(* ------------------------------------------------------------------ *)

Names == { <<"GoMinji">>, <<"HwangHuigu">>, <<"HongGildong">>, <<" ", "GoMinji">>,
           <<" ">>, <<>> }

Urls == { <<>>, <<" ">>,
          <<"https:", "/", "/", "abc.tistory.com">>,
          <<"https:", "/", "/", "blog.example.com", "/", "a">>,
          <<"https:", "/", "/", "velog.io">>,
          <<"https:", "/", "/", "velog.io", "/", "@">>,
          <<"https:", "/", "/", "velog.io", "/", "@", "/">>,
          <<"https:", "/", "/", "velog.io", "/", "@", "/", "a">>,
          <<"https:", "/", "/", "velog.io", "/", "@", "alice">>,
          <<"https:", "/", "/", "velog.io", "/", "@", "alice", "/", "my-post">>,
          <<"https:", "/", "/", "velog.io", "/", "a", "/", "@", "alice">>,
          <<"http:", "/", "/", "velog.io", "/", "@", "alice">>,
          <<"velog.io", "/", "@", "alice">>,
          <<"https:", "/", "/", "x.io", "/", "?u=", "https:", "/", "/", "velog.io", "/", "@", "bob">> }

Bodies ==
    { [is_dict |-> FALSE, name |-> PyNone, url |-> PyNone] }
    \cup [is_dict : {TRUE},
          name : {PyNone, PyOther} \cup {PyStr(n) : n \in Names},
          url : {PyNone, PyOther} \cup {PyStr(u) : u \in Urls}]

\* what requests.get(url) gives get_site_info
Configs == { [kind |-> "absent", name |-> <<>>, id |-> <<>>],
             [kind |-> "unparsable", name |-> <<>>, id |-> <<>>],
             [kind |-> "nokey", name |-> <<>>, id |-> <<>>],
             [kind |-> "ok", name |-> <<"abc">>, id |-> <<"1234">>] }

Fetched ==
    { [raises |-> TRUE, marker |-> FALSE, config |-> [kind |-> "absent", name |-> <<>>, id |-> <<>>]] }
    \cup [raises : {FALSE}, marker : BOOLEAN, config : Configs]

\* rows of the tistory entry API
TRow(id, published) ==
    [id |-> id, title |-> <<"t", id>>, url |-> <<"https://abc.tistory.com">>,
     subPath |-> <<"/", id>>, published |-> published,
     thumbnail |-> <<>>, summary |-> <<"s", id>>]

t1 == TRow("1", <<"2023", ". ", "01", ". ", "05", ".">>)
t2 == TRow("2", <<"2023", ". ", "12", ". ", "31", ".">>)
tBad == TRow("3", <<"2023", "-", "01", "-", "05">>)

TistoryResponses ==
    { [raises |-> TRUE, items |-> <<>>, nextPage |-> <<>>] }
    \cup [raises : {FALSE},
          items : {<<>>, <<t1>>, <<t1, t2>>, <<t2, tBad>>},
          nextPage : {<<>>, <<1>>}]

\* rows of the velog GraphQL API
VRow(id) ==
    [id |-> <<id>>, title |-> <<"t", id>>, url_slug |-> <<"slug-", id>>,
     released_at |-> <<"2023-01-05T00:00:00.000Z">>, thumbnail |-> <<>>,
     short_description |-> <<"s", id>>]

v1 == VRow("p1")
v2 == VRow("p2")
v3 == VRow("p3")

VelogResponses ==
    { [raises |-> TRUE, posts |-> <<>>] }
    \cup [raises : {FALSE}, posts : {<<>>, <<v1>>, <<v2, v1>>, <<v1, v2, v3>>}]

NoRequestResponse == [raises |-> FALSE]

\* the answers the upstream can give to the request a frame sends
Responses(site_info) ==
    IF "type" \notin DOMAIN site_info THEN {NoRequestResponse}
    ELSE IF site_info.type = "tistory" THEN TistoryResponses
    ELSE IF site_info.type = "velog" THEN VelogResponses
    ELSE {NoRequestResponse}

\* dicts a caller passes to get_posts directly that get_site_info did not
\* build for it
HandmadeInfos ==
    { ErrorInfo(MSG_LOOKUP_FAIL),
      ErrorInfo(MSG_NO_URL),
      [status |-> "error", message |-> MSG_LOOKUP_FAIL, type |-> "unknown"],
      [status |-> "success", message |-> MSG_LOOKUP_OK, type |-> "unknown", posts |-> <<>>],
      [status |-> "success", message |-> MSG_LOOKUP_OK, type |-> "velog"],
      [status |-> "error", message |-> MSG_LOOKUP_FAIL, type |-> "tistory",
       name |-> <<"abc">>, id |-> <<"1234">>, p_url |-> TistoryPageUrl(<<"abc">>),
       p_page |-> IntVal(0), posts |-> <<>>] }

\* what get_meta_tags extracts: None (any exception), or the four tags
MetaResults ==
    { [kind |-> "none"],
      [kind |-> "dict", description |-> <<"d">>, og_title |-> <<"t">>,
       og_image |-> <<>>, og_url |-> <<"u">>],
      [kind |-> "dict", description |-> <<>>, og_title |-> <<>>,
       og_image |-> <<>>, og_url |-> <<>>] }

(* ------------------------------------------------------------------ *)
(* The handlers' own code                                              *)
(* ------------------------------------------------------------------ *)

ListData(posts) == [kind |-> "list", val |-> posts]

\* posts(), lines 455-456: the answer to a failed detection
PostsSiteError == api_response(NoData, "site type not found", 400)

\* posts(), line 468: the except branch
PostsException == api_response(NoData, "post lookup failed", 404)

\* posts() without lines 462-463
PostsAfterCrawl_no_membership(name, site_posts) ==
    IF "posts" \notin DOMAIN site_posts THEN PostsException
    ELSE api_response(ListData(site_posts.posts), "", 200)

\* posts(), lines 459-465, once get_posts has returned site_posts
PostsAfterCrawl(name, site_posts) ==
    IF "posts" \notin DOMAIN site_posts THEN PostsException
    ELSE IF ~is_valid_jungler(name)
    THEN api_response(NoData, "not a member", 400)
    ELSE api_response(ListData(site_posts.posts), "", 200)

\* insert_til(), lines 340-360, after validate_request let it through: the
\* response, the log collection and the urls get_meta_tags fetched
insert_til(name, url, meta_info, db_raises, logs0) ==
    IF ~is_valid_jungler(name)
    THEN [response |-> api_response(NoData, "not a member", 400),
          logs |-> logs0, fetched |-> <<>>]
    ELSE LET new_til == [name |-> name, url |-> url, created_at |-> "now",
                         trash |-> FALSE,
                         meta_info |-> IF meta_info.kind = "none"
                                       THEN [kind |-> "dict"] ELSE meta_info]
         IN IF db_raises
            THEN [response |-> api_response(NoData, "log insert failed", 404),
                  logs |-> logs0, fetched |-> <<url>>]
            ELSE [response |-> api_response([kind |-> "dict",
                                             inserted_id |-> Len(logs0) + 1], "", 200),
                  logs |-> Append(logs0, new_til), fetched |-> <<url>>]

(* ------------------------------------------------------------------ *)
(* State                                                               *)
(* ------------------------------------------------------------------ *)

VARIABLES
    pc,           \* "idle", "detected" (get_site_info returned to a direct caller),
                  \* "get_posts" (a get_posts frame is about to run), "done"
    caller,       \* "none", "posts", "insert_til", "get_site_info", "get_posts"
    origin,       \* who built the dict get_posts works on: "get_site_info", "handmade"
    data,         \* the JSON body of the request in hand
    url,          \* the url given to get_site_info
    page,         \* what the page fetch of get_site_info gave
    arg,          \* the dict as it was when get_posts was called
    site_info,    \* the site_info dict
    depth,        \* number of get_posts frames on the stack
    sent,         \* the requests get_posts has sent upstream, in order
    received,     \* the upstream's answers to them, in order
    result,       \* how the directly called function ended
    response,     \* the HTTP response of the handler
    logs,         \* db.logs
    meta_fetches  \* the urls get_meta_tags has fetched

vars == <<pc, caller, origin, data, url, page, arg, site_info, depth, sent,
          received, result, response, logs, meta_fetches>>

NoInfo == [none |-> TRUE]
NoBody == [is_dict |-> FALSE, name |-> PyNone, url |-> PyNone]
NoPage == [raises |-> FALSE, marker |-> FALSE, config |-> [kind |-> "none", name |-> <<>>, id |-> <<>>]]
NoResult == [kind |-> "none", exc |-> "none"]
NoUrl == <<"<no call>">>

Init ==
    /\ pc = "idle"
    /\ caller = "none"
    /\ origin = "none"
    /\ data = NoBody
    /\ url = NoUrl
    /\ page = NoPage
    /\ arg = NoInfo
    /\ site_info = NoInfo
    /\ depth = 0
    /\ sent = <<>>
    /\ received = <<>>
    /\ result = NoResult
    /\ response = NoResponse
    /\ logs = <<>>
    /\ meta_fetches = <<>>

(* ------------------------------------------------------------------ *)
(* Actions                                                             *)
(* ------------------------------------------------------------------ *)

\* POST /api/posts: validate_request, then posts() up to its call of get_posts
PostsRequest ==
    /\ pc = "idle"
    /\ \E body \in Bodies, fetched \in Fetched :
        LET refused == validate_request(body) IN
        /\ data' = body
        /\ caller' = "posts"
        /\ IF refused # NoResponse
           THEN /\ response' = refused
                /\ pc' = "done"
                /\ UNCHANGED <<url, page, site_info, arg, depth, origin>>
           ELSE LET r == get_site_info(body.url.val, fetched) IN
                /\ url' = body.url.val
                /\ page' = fetched
                /\ site_info' = r
                /\ IF IsRaised(r)
                   THEN /\ response' = PostsException
                        /\ pc' = "done"
                        /\ UNCHANGED <<arg, depth, origin>>
                   ELSE IF r.status = "error"
                   THEN /\ response' = PostsSiteError
                        /\ pc' = "done"
                        /\ UNCHANGED <<arg, depth, origin>>
                   ELSE /\ response' = response
                        /\ pc' = "get_posts"
                        /\ arg' = r
                        /\ depth' = 1
                        /\ origin' = "get_site_info"
    /\ UNCHANGED <<sent, received, result, logs, meta_fetches>>

\* one frame of get_posts: its request, its loop, and then the recursive
\* call, the return through every frame below it, or the exception; when
\* the caller is posts(), the rest of the handler runs in the same step
GetPostsFrame ==
    /\ pc = "get_posts"
    /\ \E resp \in Responses(site_info) :
        LET f == get_posts_frame(site_info, resp)
            overflow == f.act = "recurse" /\ depth >= RecursionLimit
            act == IF overflow THEN "raise" ELSE f.act
            exc == IF overflow THEN "RecursionError" ELSE f.exc
        IN
        /\ site_info' = f.info
        /\ sent' = sent \o f.sent
        /\ received' = IF f.sent = <<>> THEN received ELSE Append(received, resp)
        /\ IF act = "recurse"
           THEN /\ depth' = depth + 1
                /\ UNCHANGED <<pc, result, response>>
           ELSE /\ depth' = 0
                /\ pc' = "done"
                /\ result' = [kind |-> act, exc |-> exc]
                /\ response' = IF caller # "posts" THEN response
                               ELSE IF act = "raise" THEN PostsException
                               ELSE PostsAfterCrawl(data.name.val, f.info)
    /\ UNCHANGED <<caller, origin, data, url, page, arg, logs, meta_fetches>>

\* POST /api/logs: validate_request, then insert_til()
InsertTilRequest ==
    /\ pc = "idle"
    /\ \E body \in Bodies, meta_info \in MetaResults, db_raises \in BOOLEAN :
        LET refused == validate_request(body) IN
        /\ data' = body
        /\ IF refused # NoResponse
           THEN /\ response' = refused
                /\ UNCHANGED <<logs, meta_fetches>>
           ELSE LET r == insert_til(body.name.val, body.url.val, meta_info, db_raises, logs) IN
                /\ response' = r.response
                /\ logs' = r.logs
                /\ meta_fetches' = meta_fetches \o r.fetched
    /\ caller' = "insert_til"
    /\ pc' = "done"
    /\ UNCHANGED <<origin, url, page, arg, site_info, depth, sent, received, result>>

\* a direct call get_site_info(u)
CallGetSiteInfo ==
    /\ pc = "idle"
    /\ \E u \in Urls, fetched \in Fetched :
        LET r == get_site_info(u, fetched) IN
        /\ url' = u
        /\ page' = fetched
        /\ site_info' = r
        /\ result' = IF IsRaised(r) THEN [kind |-> "raise", exc |-> r.raised]
                     ELSE [kind |-> "return", exc |-> "none"]
    /\ caller' = "get_site_info"
    /\ pc' = "detected"
    /\ UNCHANGED <<origin, data, arg, depth, sent, received, response, logs, meta_fetches>>

\* a direct call get_posts(site_info) on what get_site_info returned
CallGetPostsDetected ==
    /\ pc = "detected"
    /\ result.kind = "return"
    /\ caller' = "get_posts"
    /\ origin' = "get_site_info"
    /\ arg' = site_info
    /\ depth' = 1
    /\ pc' = "get_posts"
    /\ result' = NoResult
    /\ UNCHANGED <<data, url, page, site_info, sent, received, response, logs, meta_fetches>>

\* a direct call get_posts(d) on a dict the caller built
CallGetPostsHandmade ==
    /\ pc = "idle"
    /\ \E d \in HandmadeInfos :
        /\ arg' = d
        /\ site_info' = d
    /\ caller' = "get_posts"
    /\ origin' = "handmade"
    /\ depth' = 1
    /\ pc' = "get_posts"
    /\ UNCHANGED <<data, url, page, sent, received, result, response, logs, meta_fetches>>

Next ==
    \/ PostsRequest
    \/ GetPostsFrame
    \/ InsertTilRequest
    \/ CallGetSiteInfo
    \/ CallGetPostsDetected
    \/ CallGetPostsHandmade

Spec == Init /\ [][Next]_vars

(* ------------------------------------------------------------------ *)
(* Vocabulary of the properties                                        *)
(* ------------------------------------------------------------------ *)

Allowed == { junglers[i] : i \in 1..Len(junglers) }

Last(q) == q[Len(q)]

\* get_site_info has returned to a direct caller
Detected == pc = "detected" /\ caller = "get_site_info"

\* a crawl of a dict that get_site_info built
CrawlOf(type) ==
    /\ origin = "get_site_info"
    /\ caller \in {"posts", "get_posts"}
    /\ "type" \in DOMAIN arg
    /\ arg.type = type
    /\ "p_url" \in DOMAIN arg

\* get_posts has returned (to posts() or to a direct caller)
Returned == pc = "done" /\ caller \in {"posts", "get_posts"} /\ result.kind = "return"

\* the text after the first 'velog.io/@' of u, up to the next "/"
HandleOf(u) ==
    LET at == { i \in 1..Len(u) : i + 2 <= Len(u) /\ SubSeq(u, i, i + 2) = VELOG_MARK }
        i == CHOOSE k \in at : \A j \in at : k <= j
    IN NonSlashRun(u, i + 3)

\* every row of a tistory page carries a date strptime accepts
WellFormed(rows) == \A i \in 1..Len(rows) : ~IsRaised(Strptime(rows[i].published))

\* the items of the rows of the tistory pages q, page after page
RECURSIVE TistoryItemsOf(_)
TistoryItemsOf(q) ==
    IF q = <<>> THEN <<>>
    ELSE TistoryItemsOf(SubSeq(q, 1, Len(q) - 1))
         \o [i \in 1..Len(Last(q).items) |-> TistoryItem(Last(q).items[i])]

\* the rows of the velog pages q, page after page
RECURSIVE VelogRowsOf(_)
VelogRowsOf(q) ==
    IF q = <<>> THEN <<>> ELSE VelogRowsOf(SubSeq(q, 1, Len(q) - 1)) \o Last(q).posts

\* the GraphQL request body that carries cursor c and username u
VelogPayload(c, u) ==
    <<VELOG_QUERY[1]>> \o c \o <<VELOG_QUERY[3]>> \o u \o <<VELOG_QUERY[5]>>

(* ------------------------------------------------------------------ *)
(* C1                                                                  *)
(* ------------------------------------------------------------------ *)

\* the failure cases C1 lists: empty url, page fetch raising, tistory marker
\* present but config missing or unparsable, velog-looking url the handle
\* regex does not match
C1_FailureCase ==
    \/ url = <<>>
    \/ page.raises
    \/ page.marker /\ page.config.kind # "ok"
    \/ ~page.marker /\ Contains(url, VELOG_MARK) /\ ~VelogSearch(url).matched

\* C1: get_site_info never raises to its caller: for every url it returns a
\* record that carries a status field, and in every failure case the status
\* is error.
C1_NeverRaises ==
    Detected =>
        /\ result.kind = "return"
        /\ "status" \in DOMAIN site_info
        /\ site_info.status \in {"success", "error"}
        /\ C1_FailureCase => site_info.status = "error"

\* a velog-looking url the regex does not match (http, not https) came back
\* as an error record
C1_Witness ==
    /\ Detected
    /\ url = <<"http:", "/", "/", "velog.io", "/", "@", "alice">>
    /\ ~page.raises /\ ~page.marker
    /\ site_info = ErrorInfo(MSG_LOOKUP_FAIL)

(* ------------------------------------------------------------------ *)
(* C2                                                                  *)
(* ------------------------------------------------------------------ *)

\* C2: a url whose page does not carry the tistory marker and which does
\* not match the velog profile pattern comes back with status error, no
\* type and no posts; and a page that carries the marker is never
\* classified as velog, whatever the url looks like.
C2_Unrecognized ==
    Detected =>
        /\ (page.raises \/ ~page.marker) /\ ~VelogSearch(url).matched
            => /\ "status" \in DOMAIN site_info
               /\ site_info.status = "error"
               /\ "type" \notin DOMAIN site_info
               /\ "posts" \notin DOMAIN site_info
        /\ ~page.raises /\ page.marker
            => ~("type" \in DOMAIN site_info /\ site_info.type = "velog")

\* a url on the velog host that is no profile url ('velog.io/@' is not in
\* it), fetched without the tistory marker, came back as a bare error record
C2_Witness ==
    /\ Detected
    /\ url = <<"https:", "/", "/", "velog.io", "/", "a", "/", "@", "alice">>
    /\ ~page.raises /\ ~page.marker
    /\ site_info = ErrorInfo(MSG_LOOKUP_FAIL)

(* ------------------------------------------------------------------ *)
(* C3                                                                  *)
(* ------------------------------------------------------------------ *)

\* C3: in a tistory crawl started at p_page = 0 the i-th request asks for
\* page i-1, every answered page but the last one reported a next page, and
\* when get_posts returns the last page is the first one with nextPage =
\* null, one request was sent per page, and the posts are the items of the
\* pages in response order.
C3_TistoryPagination ==
    CrawlOf("tistory") =>
        /\ \A i \in 1..Len(sent) :
              sent[i] = [method |-> "GET",
                         url |-> <<"https://">> \o arg.name
                                 \o <<".tistory.com/m/api/entry/0/POST?page=",
                                      ToString(i - 1), "&size=20">>]
        /\ Len(received) = Len(sent)
        /\ \A i \in 1..(Len(received) - 1) :
              ~received[i].raises /\ received[i].nextPage # <<>>
        /\ pc = "get_posts" => Len(sent) = depth - 1
        /\ Returned =>
              /\ Len(sent) >= 1
              /\ ~Last(received).raises
              /\ Last(received).nextPage = <<>>
              /\ site_info.posts = TistoryItemsOf(received)

\* two fetches: page 0 with two items and a next page, page 1 empty with
\* nextPage = null; only the first page's items are returned
C3_Witness ==
    /\ CrawlOf("tistory")
    /\ Returned
    /\ Len(sent) = 2
    /\ received[1].items = <<t1, t2>>
    /\ received[2].items = <<>>
    /\ Len(site_info.posts) = 2

(* ------------------------------------------------------------------ *)
(* C4                                                                  *)
(* ------------------------------------------------------------------ *)

\* C4: in a velog crawl the first request carries cursor "" and each later
\* one the id of the last post of the page before it; every answered page
\* but the last one was non-empty; and when get_posts returns the last page
\* is empty, so n non-empty pages cost n+1 requests, and the posts are the
\* rows of the pages in order, each with url https://velog.io/@<id>/<slug>.
C4_VelogPagination ==
    CrawlOf("velog") =>
        /\ \A i \in 1..Len(sent) :
              sent[i] = [method |-> "POST", url |-> <<"https://v3.velog.io/graphql">>,
                         data |-> VelogPayload(
                                     IF i = 1 THEN <<>> ELSE Last(received[i - 1].posts).id,
                                     arg.id)]
        /\ Len(received) = Len(sent)
        /\ \A i \in 1..(Len(received) - 1) :
              ~received[i].raises /\ received[i].posts # <<>>
        /\ Returned =>
              /\ Len(sent) >= 1
              /\ ~Last(received).raises
              /\ Last(received).posts = <<>>
              /\ LET rows == VelogRowsOf(received) IN
                 /\ Len(site_info.posts) = Len(rows)
                 /\ \A i \in 1..Len(rows) :
                       /\ site_info.posts[i].id = rows[i].id
                       /\ site_info.posts[i].url =
                            <<"https:", "/", "/", "velog.io", "/", "@">> \o arg.id
                            \o <<"/">> \o rows[i].url_slug

\* alice's blog: three posts on call 1, none on call 2, two calls in all
C4_Witness ==
    /\ CrawlOf("velog")
    /\ Returned
    /\ arg.id = <<"alice">>
    /\ Len(sent) = 2
    /\ received[1].posts = <<v1, v2, v3>>
    /\ Len(site_info.posts) = 3

(* ------------------------------------------------------------------ *)
(* C5                                                                  *)
(* ------------------------------------------------------------------ *)

\* C5: get_posts called with a dict whose status is error, or whose type is
\* absent or neither tistory nor velog, returns that dict unmodified, sends
\* no request and raises nothing.
C5_ErrorInputReturned ==
    ( /\ pc = "done"
      /\ caller = "get_posts"
      /\ \/ arg.status = "error"
         \/ "type" \notin DOMAIN arg
         \/ arg.type \notin {"tistory", "velog"} )
    => /\ result.kind = "return"
       /\ site_info = arg
       /\ sent = <<>>

(* ------------------------------------------------------------------ *)
(* C6                                                                  *)
(* ------------------------------------------------------------------ *)

\* C6: a url recognized as a velog profile url ('velog.io/@' in it, no
\* tistory marker on the page) whose handle is empty comes back from
\* get_site_info with status success, type velog and no identifiers.
C6_DegenerateIsSuccess ==
    ( /\ Detected
      /\ ~page.raises /\ ~page.marker
      /\ Contains(url, VELOG_MARK)
      /\ HandleOf(url) = <<>> )
    => /\ "status" \in DOMAIN site_info
       /\ site_info.status = "success"
       /\ "type" \in DOMAIN site_info
       /\ site_info.type = "velog"
       /\ "id" \notin DOMAIN site_info

(* ------------------------------------------------------------------ *)
(* C7                                                                  *)
(* ------------------------------------------------------------------ *)

\* C7: from the dict get_site_info returns through every frame of get_posts,
\* the type is present only when status = success, and p_page is a
\* non-negative integer for tistory and a string for velog.
C7_SiteInfoInvariant ==
    (origin # "handmade" /\ site_info # NoInfo /\ ~IsRaised(site_info)) =>
        /\ "status" \in DOMAIN site_info
        /\ "type" \in DOMAIN site_info =>
              /\ site_info.status = "success"
              /\ site_info.type \in {"tistory", "velog"}
              /\ "p_page" \in DOMAIN site_info
              /\ site_info.type = "tistory" =>
                    site_info.p_page.kind = "int" /\ site_info.p_page.val >= 0
              /\ site_info.type = "velog" => site_info.p_page.kind = "str"

\* a tistory crawl two pages in
C7_Witness ==
    /\ pc = "get_posts"
    /\ origin = "get_site_info"
    /\ "type" \in DOMAIN site_info
    /\ site_info.type = "tistory"
    /\ site_info.p_page.kind = "int"
    /\ site_info.p_page.val = 2

(* ------------------------------------------------------------------ *)
(* C8                                                                  *)
(* ------------------------------------------------------------------ *)

\* C8: a POST /api/logs or POST /api/posts request whose name is not in the
\* allow-list never gets a success response and never gets data back; for
\* /api/logs get_meta_tags fetches nothing and db.logs gets no record.
C8_NonMemberNeverSucceeds ==
    ( /\ caller \in {"posts", "insert_til"}
      /\ ~(data.name.kind = "str" /\ data.name.val \in Allowed) )
    => /\ response.result # "success"
       /\ response.data = NoData
       /\ pc = "done" => response.result = "fail" /\ response.status \in {400, 404}
       /\ caller = "insert_til" => logs = <<>> /\ meta_fetches = <<>>

\* a non-member's /api/posts request whose crawl completed with posts in
\* hand was answered 400 without them
C8_Witness ==
    /\ caller = "posts"
    /\ pc = "done"
    /\ data.name = PyStr(<<"HongGildong">>)
    /\ result.kind = "return"
    /\ "posts" \in DOMAIN site_info
    /\ Len(site_info.posts) > 0
    /\ response.status = 400

(* ------------------------------------------------------------------ *)
(* C9                                                                  *)
(* ------------------------------------------------------------------ *)

Crawl == CrawlOf("tistory") \/ CrawlOf("velog")

\* a well-formed page that announces more
MorePage(r) ==
    /\ ~r.raises
    /\ IF arg.type = "tistory" THEN WellFormed(r.items) /\ r.nextPage # <<>>
       ELSE r.posts # <<>>

\* a well-formed page that ends the pagination
LastPage(r) ==
    /\ ~r.raises
    /\ IF arg.type = "tistory" THEN WellFormed(r.items) /\ r.nextPage = <<>>
       ELSE r.posts = <<>>

\* C9 as claimed: nothing but the upstream ends a crawl, so while every
\* answer so far announced more, get_posts is still fetching.
C9_OnlyUpstreamEndsCrawl ==
    (Crawl /\ received # <<>> /\ \A i \in 1..Len(received) : MorePage(received[i]))
    => pc = "get_posts"

\* C9 as amended: get_posts has no iteration cap of its own and returns
\* exactly when the upstream sends a terminating page; while every answer
\* announced more it keeps fetching, one frame per page, until the
\* recursion limit is reached, where RecursionError ends the crawl.
C9_UpstreamOrRecursionLimit ==
    Crawl =>
        /\ (received # <<>> /\ \A i \in 1..Len(received) : MorePage(received[i]))
           => \/ pc = "get_posts" /\ depth = Len(sent) + 1 /\ depth <= RecursionLimit
              \/ /\ pc = "done"
                 /\ result = [kind |-> "raise", exc |-> "RecursionError"]
                 /\ Len(sent) = RecursionLimit
        /\ (received # <<>> /\ LastPage(Last(received))) => Returned
        /\ Returned => received # <<>> /\ LastPage(Last(received))

\* every answer announced more and the crawl died of RecursionError
C9_Witness ==
    /\ Crawl
    /\ pc = "done"
    /\ result.exc = "RecursionError"
    /\ Len(sent) = RecursionLimit
    /\ \A i \in 1..Len(received) : MorePage(received[i])

(* ------------------------------------------------------------------ *)
(* C10                                                                 *)
(* ------------------------------------------------------------------ *)

\* the posts get_posts holds are those of every page it received
CollectedAll ==
    IF arg.type = "tistory" THEN site_info.posts = TistoryItemsOf(received)
    ELSE LET rows == VelogRowsOf(received) IN
         /\ Len(site_info.posts) = Len(rows)
         /\ \A i \in 1..Len(rows) : site_info.posts[i].id = rows[i].id

\* C10: a fetch or parse that raises on any page is not taken for the end of
\* the pagination: it propagates out of get_posts, and /api/posts answers
\* 404 fail without any of the posts collected so far; a success response
\* carries the posts of a crawl that reached its last page, never a part.
C10_AllOrNothing ==
    /\ ( /\ pc = "done" /\ caller \in {"posts", "get_posts"}
         /\ received # <<>> /\ Last(received).raises )
       => result.kind = "raise"
    /\ (pc = "done" /\ caller = "posts" /\ result.kind = "raise")
       => response = api_response(NoData, "post lookup failed", 404)
    /\ (caller = "posts" /\ response.result = "success")
       => /\ Returned
          /\ Crawl
          /\ LastPage(Last(received))
          /\ CollectedAll
          /\ response.data = ListData(site_info.posts)

\* the second page's fetch raised with posts of the first page in hand, and
\* the handler answered 404 without data
C10_Witness ==
    /\ caller = "posts"
    /\ pc = "done"
    /\ Len(received) >= 2
    /\ Last(received).raises
    /\ Len(site_info.posts) > 0
    /\ response.status = 404
    /\ response.data = NoData

====
